---- MODULE Spec2Model ----
(***************************************************************************)
(* Model of scripts/generate-splash-icons.py: the retrowave background     *)
(* renderer (draw_retrowave), the logo extractor (extract_logo), the       *)
(* composer (create_icon, paste_at) and the driver (main).                 *)
(*                                                                         *)
(* Each Python call frame is a record variable holding the frame's locals  *)
(* and its position (pc).  Numbers the script computes in floating point   *)
(* are computed here on integers:                                          *)
(*   - int(size * c) for a double literal c is the exact IEEE-754 product, *)
(*     rounded to nearest-even, then truncated (IntOfProduct);             *)
(*   - a gradient channel int(c1 + (c2 - c1) * t) is the floor of the      *)
(*     rational value; where that value is an exact integer and t is       *)
(*     neither 0 nor 1 the double may land just below it, so both          *)
(*     outcomes are allowed (lerp_channel);                                *)
(*   - the 8-bit alpha of extract_logo is the floor of 255 * x^0.7, found  *)
(*     by comparing tenth powers on multi-limb naturals (AlphaOf).         *)
(* An image is a record of its mode, width, height and one pixel `px`: the *)
(* pixel at an arbitrary column of row probe_y (draw_retrowave), or the    *)
(* one source pixel followed through the pipeline (extract_logo).  Row     *)
(* fills are uniform in x and compositing is pixel-wise, so a property of  *)
(* the probed pixel for every choice of probe_y is a property of every     *)
(* pixel.                                                                  *)
(***************************************************************************)
EXTENDS Integers, Sequences, FiniteSets, TLC

VARIABLES
    dr,       \* frame of draw_retrowave
    probe_y,  \* the row of the canvas whose pixel dr.img.px follows
    el,       \* frame of extract_logo
    ci,       \* frame of create_icon
    mn,       \* frame of main
    fs,       \* the file system: the source image, the output directory
    out,      \* the lines printed
    hist      \* history of the current run (not program state)

vars == <<dr, probe_y, el, ci, mn, fs, out, hist>>

(***************************************************************************)
(* Bounds and program constants                                            *)
(***************************************************************************)
\* draw_retrowave is explored for every size in 1..MaxBgSize and the two
\* sizes of SIZES.
MaxBgSize == 50

SIZES == <<192, 512>>

BgSizes == (1 .. MaxBgSize) \cup {SIZES[i] : i \in 1 .. Len(SIZES)}

(***************************************************************************)
(* IEEE-754 double literals, as the numerator N of c = N / 2^53 split into *)
(* three limbs <<N \div 2^36, (N \div 2^18) % 2^18, N % 2^18>>.            *)
(***************************************************************************)
Limb == 2 ^ 18

D058 == <<76021, 199229, 115343>>

D065 == <<85196, 209715, 52429>>

D055 == <<72089, 157286, 104858>>

D040 == <<52428, 209715, 52429>>

RECURSIVE BitLen(_)
BitLen(q) == IF q = 0 THEN 0 ELSE 1 + BitLen(q \div 2)

\* int(n * c): the exact product n * N is Q * 2^53 + R; rounding it to 53
\* significant bits drops d = BitLen(Q) bits and carries into Q exactly when
\* R >= 2^53 - 2^(d-1).
IntOfProduct(n, c) ==
    LET p0 == n * c[3]
        t0 == p0 % Limb
        p1 == n * c[2] + (p0 \div Limb)
        t1 == p1 % Limb
        p2 == n * c[1] + (p1 \div Limb)
        Q  == p2 \div (2 ^ 17)
        d  == BitLen(Q)
        up == /\ d >= 1
              /\ p2 % (2 ^ 17) = 2 ^ 17 - 1
              /\ t1 = Limb - 1
              /\ Limb - t0 <= 2 ^ (d - 1)
    IN  IF up THEN Q + 1 ELSE Q

Max(a, b) == IF a >= b THEN a ELSE b

(***************************************************************************)
(* lerp_color                                                              *)
(***************************************************************************)
\* One channel of lerp_color with t = num / den (0 <= num <= den, den > 0):
\* the values int(c1 + (c2 - c1) * t) can take.
lerp_channel(c1, c2, num, den) ==
    LET n == c1 * den + (c2 - c1) * num
        v == n \div den
    IN  IF n % den = 0 /\ num # 0 /\ num # den /\ c1 # c2
        THEN {v - 1, v}
        ELSE {v}

lerp_color(c1, c2, num, den) ==
    { <<r, g, b>> : r \in lerp_channel(c1[1], c2[1], num, den),
                    g \in lerp_channel(c1[2], c2[2], num, den),
                    b \in lerp_channel(c1[3], c2[3], num, den) }

(***************************************************************************)
(* Images (PIL)                                                            *)
(***************************************************************************)
NoImage == [mode |-> "none", w |-> 0, h |-> 0, px |-> <<0, 0, 0, 0>>]

ImageNew(mode, w, h, fill) == [mode |-> mode, w |-> w, h |-> h, px |-> fill]

\* (((a) >> 8) + a) >> 8
ShiftForDiv255(a) == ((a \div 256) + a) \div 256

\* One pixel of Image.alpha_composite(dst, src): src over dst, in Pillow's
\* integer arithmetic with 7 extra bits of precision.
AlphaCompositePixel(d, s) ==
    IF s[4] = 0 THEN d
    ELSE LET blend   == d[4] * (255 - s[4])
             outa255 == s[4] * 255 + blend
             coef1   == (s[4] * 255 * 255 * 128) \div outa255
             coef2   == 255 * 128 - coef1
             ch(i)   == ShiftForDiv255(s[i] * coef1 + d[i] * coef2 + 128 * 128)
                            \div 128
         IN  <<ch(1), ch(2), ch(3), ShiftForDiv255(outa255 + 128)>>

SameShape(a, b) == a.mode = b.mode /\ a.w = b.w /\ a.h = b.h

\* Image.alpha_composite raises ValueError unless both images are RGBA of the
\* same size; the result is a new image.
CanComposite(im1, im2) == im1.mode = "RGBA" /\ SameShape(im1, im2)

AlphaComposite(im1, im2) ==
    [im1 EXCEPT !.px = AlphaCompositePixel(im1.px, im2.px)]

(***************************************************************************)
(* Multi-limb naturals: little-endian sequences of limbs below 2^20,       *)
(* without leading zero limbs (zero is <<>>).                              *)
(***************************************************************************)
BigBase == 2 ^ 20

RECURSIVE BigMulCarry(_, _, _)
BigMulCarry(a, m, carry) ==
    IF a = <<>>
    THEN IF carry = 0 THEN <<>> ELSE <<carry>>
    ELSE LET p == Head(a) * m + carry
         IN  <<p % BigBase>> \o BigMulCarry(Tail(a), m, p \div BigBase)

\* a * m for 0 <= m < 2^8
BigMulSmall(a, m) == IF m = 0 THEN <<>> ELSE BigMulCarry(a, m, 0)

\* a * m^e
RECURSIVE BigMulPow(_, _, _)
BigMulPow(a, m, e) == IF e = 0 THEN a ELSE BigMulPow(BigMulSmall(a, m), m, e - 1)

RECURSIVE BigLeqFrom(_, _, _)
BigLeqFrom(a, b, i) ==
    IF i = 0 THEN TRUE
    ELSE IF a[i] # b[i] THEN a[i] < b[i]
    ELSE BigLeqFrom(a, b, i - 1)

BigLeq(a, b) ==
    IF Len(a) # Len(b) THEN Len(a) < Len(b) ELSE BigLeqFrom(a, b, Len(a))

(***************************************************************************)
(* extract_logo(icon_path, target_size)                                    *)
(***************************************************************************)
\* The comment's threshold ("pixels brighter than 80 start becoming visible").
LowAsCommented == 70 + 10

low == 70

high == 150

\* np.clip((brightness - low) / (high - low), 0, 1), as the numerator k of
\* k / (high - low).
Ramp(brightness) ==
    IF brightness <= low THEN 0
    ELSE IF brightness >= high THEN high - low
    ELSE brightness - low

\* a <= 255 * (k / (high - low)) ^ 0.7, i.e. a^10 * (high-low)^7 <= 255^10 * k^7,
\* with rhs the right-hand side
AlphaAtLeast(a, rhs) ==
    BigLeq(BigMulPow(BigMulPow(<<1>>, a, 10), high - low, 7), rhs)

\* the largest a in lo .. hi - 1 with AlphaAtLeast(a, rhs), given it holds of
\* lo and not of hi
RECURSIVE AlphaSearch(_, _, _)
AlphaSearch(lo, hi, rhs) ==
    IF hi - lo <= 1 THEN lo
    ELSE LET mid == (lo + hi) \div 2
         IN  IF AlphaAtLeast(mid, rhs) THEN AlphaSearch(mid, hi, rhs)
             ELSE AlphaSearch(lo, mid, rhs)

\* The ramp without the exponent: 255 * k / (high - low), truncated.
AlphaLinear(k) == (255 * k) \div (high - low)

\* (alpha ** 0.7 * 255).astype(np.uint8): the floor of 255 * (k/(high-low))^0.7
AlphaOf(k) == AlphaSearch(0, 256, BigMulPow(BigMulPow(<<1>>, 255, 10), k, 7))

Max3(p) == Max(p[1], Max(p[2], p[3]))

NoFile == [mode |-> "absent", w |-> 0, h |-> 0, px |-> <<>>]

ElIdle ==
    [pc |-> "idle", target_size |-> 0, img |-> NoImage, arr |-> <<>>,
     brightness |-> <<>>, alpha |-> <<>>, result |-> <<>>, logo |-> NoImage]

ElCall(target_size) == [ElIdle EXCEPT !.pc = "open", !.target_size = target_size]

\* img = Image.open(icon_path).convert("RGBA"); raises when the file is
\* absent.  arr = np.array(img, dtype=np.float32)
ElOpen ==
    /\ el.pc = "open"
    /\ IF fs.src.mode = "absent"
       THEN /\ el' = [el EXCEPT !.pc = "raised"]
            /\ hist' = [hist EXCEPT !.raised = "load"]
       ELSE /\ el' = [el EXCEPT !.img = [fs.src EXCEPT !.mode = "RGBA"],
                                !.arr = fs.src.px,
                                !.pc = "brightness"]
            /\ hist' = [hist EXCEPT !.loads = @ \cup {fs.src}, !.loaded = fs.src]
    /\ UNCHANGED <<dr, probe_y, ci, mn, fs, out>>

\* brightness = np.max(arr[:, :, :3], axis=2)
ElBrightness ==
    /\ el.pc = "brightness"
    /\ el' = [el EXCEPT !.brightness = [i \in 1 .. Len(el.arr) |-> Max3(el.arr[i])],
                        !.pc = "ramp"]
    /\ UNCHANGED <<dr, probe_y, ci, mn, fs, out, hist>>

\* alpha = np.clip((brightness - low) / (high - low), 0, 1)
ElRamp ==
    /\ el.pc = "ramp"
    /\ el' = [el EXCEPT !.alpha = [i \in 1 .. Len(el.arr) |-> Ramp(el.brightness[i])],
                        !.pc = "apply"]
    /\ UNCHANGED <<dr, probe_y, ci, mn, fs, out, hist>>

\* alpha = alpha ** 0.7; result = arr.copy(); result[:, :, 3] = alpha * 255;
\* logo = Image.fromarray(result.astype(np.uint8))
ElApply ==
    /\ el.pc = "apply"
    /\ LET result == [i \in 1 .. Len(el.arr) |->
                         <<el.arr[i][1], el.arr[i][2], el.arr[i][3],
                           AlphaOf(el.alpha[i])>>]
       IN  el' = [el EXCEPT !.result = result,
                            !.logo = [el.img EXCEPT !.px = result],
                            !.pc = "resize"]
    /\ UNCHANGED <<dr, probe_y, ci, mn, fs, out, hist>>

\* logo.resize((target_size, target_size), Image.LANCZOS): a new image of the
\* target size whose pixels are resampled from the whole of the old one.
Resize(im, w, h) == [mode |-> im.mode, w |-> w, h |-> h, px |-> <<"resize", im, w, h>>]

\* logo = logo.resize(...); return logo
ElResize ==
    /\ el.pc = "resize"
    /\ el' = [el EXCEPT !.logo = Resize(el.logo, el.target_size, el.target_size),
                        !.pc = "done"]
    /\ UNCHANGED <<dr, probe_y, ci, mn, fs, out, hist>>

\* Source pixels of brightness b: grey, red-dominant, green-dominant and
\* transparent, blue-dominant and half-transparent.
SamplePixel(b, k) ==
    CASE k = 1 -> <<b, b, b, 255>>
      [] k = 2 -> <<b, 0, b \div 2, 255>>
      [] k = 3 -> <<b \div 3, b, 0, 0>>
      [] OTHER -> <<0, b \div 2, b, 128>>

Landmarks == {0, low, 110, high, 255}

TargetSizes == {105, 332}

NoFiles == [src |-> NoFile, writable |-> TRUE, files |-> <<>>]

NoHist ==
    [run |-> 1, calls |-> 0, saved |-> <<>>, images |-> <<>>, loads |-> {},
     loaded |-> NoFile, placed |-> <<>>, raised |-> "no", start_files |-> <<>>,
     icons |-> {}, outputs |-> {}, env_src |-> NoFile]

(***************************************************************************)
(* draw_retrowave(size)                                                    *)
(***************************************************************************)
\* Gradient stop positions in hundredths: 0.0, 0.35, 0.55, 0.75, 1.0.
sky_stops ==
    << [pos |-> 0,   color |-> <<13, 10, 26>>],
       [pos |-> 35,  color |-> <<18, 12, 34>>],
       [pos |-> 55,  color |-> <<28, 14, 55>>],
       [pos |-> 75,  color |-> <<40, 15, 72>>],
       [pos |-> 100, color |-> <<52, 16, 88>>] >>

floor_near == <<40, 12, 65>>

floor_far == <<13, 10, 26>>

pink == <<255, 45, 149>>

horizon_of(size) == IntOfProduct(size, D058)

\* cx, cy = size // 2, int(size * 0.40)
radial_center(size) == <<size \div 2, IntOfProduct(size, D040)>>

\* A fill that leaves the row transparent.
TransparentFill(color) == color \o <<0>>

\* fill = color + (255,)
OpaqueFill(color) == color \o <<255>>

\* draw.line([(0, y), (size, y)], fill): the whole of row y.
DrawRow(img, y, fill) == IF y = probe_y THEN [img EXCEPT !.px = fill] ELSE img

\* sky_stops[i][0] <= t <= sky_stops[i + 1][0] with t = y / max(horizon_y, 1)
Brackets(i, y, h) ==
    /\ sky_stops[i].pos * Max(h, 1) <= 100 * y
    /\ 100 * y <= sky_stops[i + 1].pos * Max(h, 1)

\* The inner loop of the sky gradient: the stop pairs a line is drawn for.
\* The loop breaks at the first match.
RECURSIVE SkyDrawsFrom(_, _, _)
SkyDrawsFrom(i, y, h) ==
    IF i > Len(sky_stops) - 1 THEN <<>>
    ELSE IF Brackets(i, y, h) THEN <<i>>
    ELSE SkyDrawsFrom(i + 1, y, h)

\* The inner loop without its break: a line for every bracketing pair.
SkyDrawsNoBreak(y, h) ==
    SelectSeq([i \in 1 .. Len(sky_stops) - 1 |-> i], LAMBDA i : Brackets(i, y, h))

SkyDraws(y, h) == SkyDrawsFrom(1, y, h)

\* lt = (t - s_i) / (s_{i+1} - s_i), and the colours lerp_color can give.
SkyColors(i, y, h) ==
    lerp_color(sky_stops[i].color, sky_stops[i + 1].color,
               100 * y - sky_stops[i].pos * Max(h, 1),
               (sky_stops[i + 1].pos - sky_stops[i].pos) * Max(h, 1))

\* t * 0.6 with t = (y - horizon_y) / max(size - horizon_y, 1)
FloorColors(y, h, size) ==
    lerp_color(floor_near, floor_far, 3 * (y - h), 5 * Max(size - h, 1))

RECURSIVE ColorSeqs(_, _, _)
ColorSeqs(is, y, h) ==
    IF is = <<>> THEN {<<>>}
    ELSE { <<[i |-> Head(is), color |-> c]>> \o rest :
              c \in SkyColors(Head(is), y, h),
              rest \in ColorSeqs(Tail(is), y, h) }

RECURSIVE DrawRows(_, _, _)
DrawRows(img, y, draws) ==
    IF draws = <<>> THEN img
    ELSE DrawRows(DrawRow(img, y, OpaqueFill(Head(draws).color)), y, Tail(draws))

\* Where the row loops go next: the sky loop runs y over range(horizon_y),
\* the floor loop over range(horizon_y, size).
AfterRow(y, h, size) ==
    IF y < h THEN "sky" ELSE IF y < size THEN "floor" ELSE "grid"

NoDraw == [kind |-> "none", y |-> 0, draws |-> <<>>]

DrIdle ==
    [pc |-> "idle", size |-> 0, img |-> NoImage, horizon_y |-> 0, y |-> 0,
     grid_layer |-> NoImage, glow |-> NoImage, glow2 |-> NoImage,
     cx |-> 0, cy |-> 0, fills |-> <<>>, drawn |-> NoDraw]

DrCall(size) == [DrIdle EXCEPT !.pc = "start", !.size = size]

\* img = Image.new("RGBA", (size, size), (0, 0, 0, 255)); horizon_y = int(size * 0.58)
DrNew ==
    /\ dr.pc = "start"
    /\ LET h == horizon_of(dr.size) IN
       dr' = [dr EXCEPT !.img = ImageNew("RGBA", dr.size, dr.size, <<0, 0, 0, 255>>),
                        !.horizon_y = h,
                        !.y = 0,
                        !.fills = [r \in 1 .. dr.size |-> <<>>],
                        !.pc = AfterRow(0, h, dr.size)]
    /\ UNCHANGED <<probe_y, el, ci, mn, fs, out, hist>>

\* One iteration of `for y in range(horizon_y)`.
DrSkyRow ==
    /\ dr.pc = "sky"
    /\ \E draws \in ColorSeqs(SkyDraws(dr.y, dr.horizon_y), dr.y, dr.horizon_y) :
         dr' = [dr EXCEPT !.img = DrawRows(dr.img, dr.y, draws),
                          !.fills[dr.y + 1] = @ \o [k \in 1 .. Len(draws) |-> "sky"],
                          !.drawn = [kind |-> "sky", y |-> dr.y, draws |-> draws],
                          !.y = dr.y + 1,
                          !.pc = AfterRow(dr.y + 1, dr.horizon_y, dr.size)]
    /\ UNCHANGED <<probe_y, el, ci, mn, fs, out, hist>>

\* One iteration of `for y in range(horizon_y, size)`.
DrFloorRow ==
    /\ dr.pc = "floor"
    /\ \E c \in FloorColors(dr.y, dr.horizon_y, dr.size) :
         dr' = [dr EXCEPT !.img = DrawRow(dr.img, dr.y, OpaqueFill(c)),
                          !.fills[dr.y + 1] = Append(@, "floor"),
                          !.drawn = [kind |-> "floor", y |-> dr.y,
                                     draws |-> <<[i |-> 0, color |-> c]>>],
                          !.y = dr.y + 1,
                          !.pc = AfterRow(dr.y + 1, dr.horizon_y, dr.size)]
    /\ UNCHANGED <<probe_y, el, ci, mn, fs, out, hist>>

\* A layer: Image.new("RGBA", (size, size), (0, 0, 0, 0)), then drawn on
\* (and blurred); p is what that leaves at the probed pixel.
NewLayer(size, p) == ImageNew("RGBA", size, size, p)

\* Grid lines are pink with alpha int(25 + 55 * t), t in [0, 1), or
\* int(25 + 30 * (1 - |frac - 0.5| * 2)); elsewhere the layer stays clear.
GridPixels == {<<0, 0, 0, 0>>, pink \o <<25>>, pink \o <<55>>, pink \o <<79>>}

\* A Gaussian-blurred layer holds any RGBA value.
BlurredPixels == {<<0, 0, 0, 0>>, <<96, 17, 56, 1>>, pink \o <<140>>,
                  <<180, 50, 200, 255>>}

Composite(frame, layer, next) ==
    IF CanComposite(frame.img, layer)
    THEN [frame EXCEPT !.img = AlphaComposite(frame.img, layer), !.pc = next]
    ELSE [frame EXCEPT !.pc = "raised"]

\* Grid overlay: img = Image.alpha_composite(img, grid_layer)
DrGrid ==
    /\ dr.pc = "grid"
    /\ \E p \in GridPixels :
         LET layer == NewLayer(dr.size, p) IN
         dr' = Composite([dr EXCEPT !.grid_layer = layer], layer, "horizon_glow")
    /\ UNCHANGED <<probe_y, el, ci, mn, fs, out, hist>>

\* Horizon glow: img = Image.alpha_composite(img, glow)
DrHorizonGlow ==
    /\ dr.pc = "horizon_glow"
    /\ \E p \in BlurredPixels :
         LET layer == NewLayer(dr.size, p) IN
         dr' = Composite([dr EXCEPT !.glow = layer], layer, "radial_glow")
    /\ UNCHANGED <<probe_y, el, ci, mn, fs, out, hist>>

\* Radial glow: img = Image.alpha_composite(img, glow2); return img
DrRadialGlow ==
    /\ dr.pc = "radial_glow"
    /\ \E p \in BlurredPixels :
         LET layer == NewLayer(dr.size, p) IN
         dr' = Composite([dr EXCEPT !.glow2 = layer,
                                    !.cx = radial_center(dr.size)[1],
                                    !.cy = radial_center(dr.size)[2]],
                         layer, "done")
    /\ UNCHANGED <<probe_y, el, ci, mn, fs, out, hist>>

(***************************************************************************)
(* create_icon(size, maskable) and paste_at(layer, pos, canvas_size)       *)
(*                                                                         *)
(* Here an image's px is the expression its pixels are computed by, over   *)
(* the source's pixels: the library calls are deterministic functions of   *)
(* their arguments.                                                        *)
(***************************************************************************)
\* draw_retrowave(size), as its caller sees it: an opaque RGBA image of
\* size x size that depends on size alone (SpecBg is its body).
DrawRetrowave(size) == ImageNew("RGBA", size, size, <<"draw_retrowave", size>>)

\* im.copy().filter(ImageFilter.GaussianBlur(radius))
Blur(im, radius) == [im EXCEPT !.px = <<"blur", im.px, radius>>]

\* glow_arr[:, :, 3] = np.clip(glow_arr[:, :, 3] * 1.5, 0, 255); fromarray
BoostAlpha(im) == [im EXCEPT !.px = <<"boost", im.px>>]

\* Image.alpha_composite(im1, im2) on whole images
Over(im1, im2) == [im1 EXCEPT !.px = <<"over", im1.px, im2.px>>]

\* bg.convert("RGB")
Convert(im, mode) == [im EXCEPT !.mode = mode, !.px = <<mode, im.px>>]

Min(a, b) == IF a <= b THEN a ELSE b

\* canvas.paste(layer, pos, layer) onto a transparent canvas: the part of the
\* layer's box inside the canvas is pasted, the rest is clipped away.
paste_at(layer, pos, canvas_size) ==
    LET box == [x0 |-> pos[1], y0 |-> pos[2],
                x1 |-> pos[1] + layer.w, y1 |-> pos[2] + layer.h]
        visible == [x0 |-> Max(box.x0, 0), y0 |-> Max(box.y0, 0),
                    x1 |-> Min(box.x1, canvas_size),
                    y1 |-> Min(box.y1, canvas_size)]
    IN  ImageNew("RGBA", canvas_size, canvas_size,
                 <<"paste", layer.px, box, visible>>)

\* The same scale for both variants.
SameScale(maskable) == D065

\* logo_scale = 0.55 if maskable else 0.65
logo_scale(maskable) == IF maskable THEN D055 ELSE D065

\* x without halving the free width.
LogoLeftFlushRight(size, logo_px) == size - logo_px

\* x = (size - logo_px) // 2
logo_left(size, logo_px) == (size - logo_px) \div 2

\* y = int(size * 0.40) - logo_px // 2
logo_top(size, logo_px) == IntOfProduct(size, D040) - (logo_px \div 2)

\* The icon left in RGBA.
IconResultUnconverted(bg) == bg

\* return bg.convert("RGB")
IconResult(bg) == Convert(bg, "RGB")

CiIdle ==
    [pc |-> "idle", size |-> 0, maskable |-> FALSE, bg |-> NoImage,
     logo_px |-> 0, logo |-> NoImage, logo_glow |-> NoImage, x |-> 0, y |-> 0,
     composited |-> <<>>, ret |-> NoImage]

CiCall(size, maskable) ==
    [CiIdle EXCEPT !.pc = "bg", !.size = size, !.maskable = maskable]

\* bg = draw_retrowave(size)
CiBackground ==
    /\ ci.pc = "bg"
    /\ ci' = [ci EXCEPT !.bg = DrawRetrowave(ci.size), !.pc = "logo"]
    /\ UNCHANGED <<dr, probe_y, el, mn, fs, out, hist>>

\* logo_px = int(size * logo_scale); the call extract_logo(path, logo_px)
CiExtract ==
    /\ ci.pc = "logo"
    /\ LET px == IntOfProduct(ci.size, logo_scale(ci.maskable)) IN
       /\ ci' = [ci EXCEPT !.logo_px = px, !.pc = "extracting"]
       /\ el' = ElCall(px)
    /\ UNCHANGED <<dr, probe_y, mn, fs, out, hist>>

\* logo = the image extract_logo returned
CiLogoReturned ==
    /\ ci.pc = "extracting" /\ el.pc = "done"
    /\ ci' = [ci EXCEPT !.logo = el.logo, !.pc = "glow"]
    /\ el' = ElIdle
    /\ UNCHANGED <<dr, probe_y, mn, fs, out, hist>>

\* extract_logo raised: create_icon has no handler and raises in turn
CiLogoRaised ==
    /\ ci.pc = "extracting" /\ el.pc = "raised"
    /\ ci' = [ci EXCEPT !.pc = "raised"]
    /\ el' = ElIdle
    /\ UNCHANGED <<dr, probe_y, mn, fs, out, hist>>

\* logo_glow: the logo blurred with radius max(2, size // 100), alpha boosted
CiGlow ==
    /\ ci.pc = "glow"
    /\ ci' = [ci EXCEPT !.logo_glow = BoostAlpha(Blur(ci.logo, Max(2, ci.size \div 100))),
                        !.pc = "place"]
    /\ UNCHANGED <<dr, probe_y, el, mn, fs, out, hist>>

CiPlace ==
    /\ ci.pc = "place"
    /\ LET x == logo_left(ci.size, ci.logo_px)
           y == logo_top(ci.size, ci.logo_px)
       IN  /\ ci' = [ci EXCEPT !.x = x, !.y = y, !.pc = "paste_glow"]
           /\ hist' = [hist EXCEPT !.placed =
                          Append(@, [size |-> ci.size, maskable |-> ci.maskable,
                                     logo_px |-> ci.logo_px, x |-> x, y |-> y])]
    /\ UNCHANGED <<dr, probe_y, el, mn, fs, out>>

CiComposite(which, layer, next) ==
    LET pasted == paste_at(layer, <<ci.x, ci.y>>, ci.size) IN
    IF CanComposite(ci.bg, pasted)
    THEN [ci EXCEPT !.bg = Over(ci.bg, pasted),
                    !.composited = Append(@, [layer |-> which, x |-> ci.x,
                                              y |-> ci.y, image |-> pasted]),
                    !.pc = next]
    ELSE [ci EXCEPT !.pc = "raised"]

\* bg = Image.alpha_composite(bg, paste_at(logo_glow, (x, y), size))
CiPasteGlow ==
    /\ ci.pc = "paste_glow"
    /\ ci' = CiComposite("logo_glow", ci.logo_glow, "paste_logo")
    /\ UNCHANGED <<dr, probe_y, el, mn, fs, out, hist>>

\* bg = Image.alpha_composite(bg, paste_at(logo, (x, y), size))
CiPasteLogo ==
    /\ ci.pc = "paste_logo"
    /\ ci' = CiComposite("logo", ci.logo, "return")
    /\ UNCHANGED <<dr, probe_y, el, mn, fs, out, hist>>

CiReturn ==
    /\ ci.pc = "return"
    /\ ci' = [ci EXCEPT !.ret = IconResult(ci.bg), !.pc = "done"]
    /\ UNCHANGED <<dr, probe_y, el, mn, fs, out, hist>>

(***************************************************************************)
(* main()                                                                  *)
(***************************************************************************)
\* The program is run at most MaxRuns times over the same file system.
MaxRuns == 2

\* f"icon-{size}.png", f"icon-{size}-maskable.png"
FileName(size, maskable) ==
    <<"icon-", size, IF maskable THEN "-maskable.png" ELSE ".png">>

\* What a failed save may leave under the file's name.
Partial == [mode |-> "partial", w |-> 0, h |-> 0, px |-> <<>>]

MnIdle ==
    [pc |-> "idle", i |-> 0, maskable |-> FALSE, icon |-> NoImage,
     icon_m |-> NoImage]

MnStart == [MnIdle EXCEPT !.pc = "create", !.i = 1]

\* The icon the loop body is at: icon_m in its second half.
MnIcon == IF mn.maskable THEN mn.icon_m ELSE mn.icon

MnName == FileName(SIZES[mn.i], mn.maskable)

\* The call create_icon(size, maskable=...)
MnCreateIcon ==
    /\ mn.pc = "create"
    /\ ci' = CiCall(SIZES[mn.i], mn.maskable)
    /\ mn' = [mn EXCEPT !.pc = "creating"]
    /\ hist' = [hist EXCEPT !.calls = @ + 1]
    /\ UNCHANGED <<dr, probe_y, el, fs, out>>

\* icon = ... / icon_m = ...: the value create_icon returned
MnIconReturned ==
    /\ mn.pc = "creating" /\ ci.pc = "done"
    /\ mn' = IF mn.maskable
             THEN [mn EXCEPT !.icon_m = ci.ret, !.pc = "save"]
             ELSE [mn EXCEPT !.icon = ci.ret, !.pc = "save"]
    /\ ci' = CiIdle
    /\ UNCHANGED <<dr, probe_y, el, fs, out, hist>>

\* An exception swallowed: the loop body goes on to its save.
Swallowed(frame) == [frame EXCEPT !.pc = "save"]

\* An exception nothing catches ends the run.
Uncaught(frame) == [frame EXCEPT !.pc = "failed"]

\* create_icon raised
MnIconRaised ==
    /\ mn.pc = "creating" /\ ci.pc = "raised"
    /\ mn' = Uncaught(mn)
    /\ ci' = CiIdle
    /\ UNCHANGED <<dr, probe_y, el, fs, out, hist>>

\* A write that keeps a file that is already there.
WriteFileIfNew(files, name, im) ==
    IF name \in DOMAIN files THEN files ELSE (name :> im) @@ files

\* The file of that name is created or replaced.
WriteFile(files, name, im) == (name :> im) @@ files

\* icon.save(f"{ICON_DIR}/...", "PNG"): the file is replaced by the image; a
\* save that fails leaves the file as it was or partly written, and raises.
MnSave ==
    /\ mn.pc = "save"
    /\ IF fs.writable
       THEN /\ fs' = [fs EXCEPT !.files = WriteFile(@, MnName, MnIcon)]
            /\ mn' = [mn EXCEPT !.pc = "print"]
            /\ hist' = [hist EXCEPT !.saved = Append(@, MnName),
                                    !.images = Append(@, MnIcon),
                                    !.icons = @ \cup {[name |-> MnName,
                                                       src |-> hist.loaded,
                                                       image |-> MnIcon]}]
       ELSE /\ \E left \in {fs.files, (MnName :> Partial) @@ fs.files} :
                 fs' = [fs EXCEPT !.files = left]
            /\ mn' = Uncaught(mn)
            /\ hist' = [hist EXCEPT !.raised = "save"]
    /\ UNCHANGED <<dr, probe_y, el, ci, out>>

\* The statement after print(...) in the loop body: the maskable half, the
\* next size, or the end of the loop.
AfterPrint(frame) ==
    IF ~frame.maskable THEN [frame EXCEPT !.maskable = TRUE, !.pc = "create"]
    ELSE IF frame.i < Len(SIZES)
         THEN [frame EXCEPT !.i = @ + 1, !.maskable = FALSE, !.pc = "create"]
         ELSE [frame EXCEPT !.pc = "finish"]

\* print(f"  icon-{size}.png") / print(f"  icon-{size}-maskable.png")
MnPrint ==
    /\ mn.pc = "print"
    /\ out' = Append(out, <<"  ">> \o MnName)
    /\ mn' = AfterPrint(mn)
    /\ UNCHANGED <<dr, probe_y, el, ci, fs, hist>>

\* print("Done."), and main returns
MnPrintDone ==
    /\ mn.pc = "finish"
    /\ out' = Append(out, <<"Done.">>)
    /\ mn' = [mn EXCEPT !.pc = "exit"]
    /\ hist' = [hist EXCEPT !.outputs =
                   @ \cup {[src |-> s, files |-> fs.files] :
                              s \in {t \in hist.loads : hist.loads = {t}}}]
    /\ UNCHANGED <<dr, probe_y, el, ci, fs>>

(***************************************************************************)
(* The environment                                                         *)
(***************************************************************************)
\* Two source images, by two of their pixels.
Sources ==
    { [mode |-> "RGBA", w |-> 512, h |-> 512,
       px |-> <<SamplePixel(200, 1), SamplePixel(110, 3)>>],
      [mode |-> "RGB", w |-> 640, h |-> 480,
       px |-> <<SamplePixel(60, 2), SamplePixel(150, 4)>>] }

\* Between two icons the source file is removed, created or replaced.
EnvSource ==
    /\ mn.pc = "create"
    /\ \E s \in (Sources \cup {NoFile}) \ {fs.src} :
         /\ fs' = [fs EXCEPT !.src = s]
         /\ hist' = [hist EXCEPT !.env_src = s]
    /\ UNCHANGED <<dr, probe_y, el, ci, mn, out>>

\* Before a save the output directory becomes unwritable, or writable again.
EnvWritable ==
    /\ mn.pc = "save"
    /\ fs' = [fs EXCEPT !.writable = ~@]
    /\ UNCHANGED <<dr, probe_y, el, ci, mn, out, hist>>

\* The program is run again.
Rerun ==
    /\ mn.pc \in {"exit", "failed"}
    /\ hist.run < MaxRuns
    /\ mn' = MnStart
    /\ out' = <<>>
    /\ hist' = [NoHist EXCEPT !.run = hist.run + 1, !.outputs = hist.outputs,
                              !.icons = hist.icons, !.env_src = hist.env_src,
                              !.start_files = fs.files]
    /\ UNCHANGED <<dr, probe_y, el, ci, fs>>

(***************************************************************************)
(* Specifications                                                          *)
(***************************************************************************)
\* draw_retrowave(size) for every size of BgSizes, probed at any row.
InitBg ==
    /\ \E size \in BgSizes : dr = DrCall(size)
    /\ probe_y \in 0 .. dr.size - 1
    /\ el = ElIdle
    /\ ci = CiIdle
    /\ mn = MnIdle
    /\ fs = NoFiles
    /\ out = <<>>
    /\ hist = NoHist

NextBg == DrNew \/ DrSkyRow \/ DrFloorRow \/ DrGrid \/ DrHorizonGlow \/ DrRadialGlow

SpecBg == InitBg /\ [][NextBg]_vars

\* Two pixels of a source image: any brightness beside the same brightness in
\* other colours, the next brightness, or a landmark.
InitLogo ==
    /\ dr = DrIdle
    /\ probe_y = 0
    /\ \E t \in TargetSizes : el = ElCall(t)
    /\ ci = CiIdle
    /\ mn = MnIdle
    /\ out = <<>>
    /\ hist = NoHist
    /\ \/ fs = NoFiles
       \/ \E b1 \in 0 .. 255, k1 \in 1 .. 2 :
          \E b2 \in ({b1, b1 + 1} \cup Landmarks) \cap (0 .. 255) :
             fs = [NoFiles EXCEPT !.src =
                      [mode |-> "RGBA", w |-> 512, h |-> 512,
                       px |-> <<SamplePixel(b1, k1), SamplePixel(b2, k1 + 2)>>]]

NextEl == ElOpen \/ ElBrightness \/ ElRamp \/ ElApply \/ ElResize

SpecLogo == InitLogo /\ [][NextEl]_vars

\* create_icon(size, maskable) for every size of IconSizes.  Sizes start at
\* 2: int(1 * 0.65) is 0, no size to resize to.
MaxIconSize == 40

IconSizes == (2 .. MaxIconSize) \cup {SIZES[i] : i \in 1 .. Len(SIZES)}

InitIcon ==
    /\ dr = DrIdle
    /\ probe_y = 0
    /\ el = ElIdle
    /\ \E size \in IconSizes, maskable \in BOOLEAN : ci = CiCall(size, maskable)
    /\ mn = MnIdle
    /\ \E s \in Sources \cup {NoFile} : fs = [NoFiles EXCEPT !.src = s]
    /\ out = <<>>
    /\ hist = NoHist

NextCi ==
    \/ CiBackground \/ CiExtract \/ CiLogoReturned \/ CiLogoRaised
    \/ CiGlow \/ CiPlace \/ CiPasteGlow \/ CiPasteLogo \/ CiReturn

NextIcon == NextCi \/ NextEl

SpecIcon == InitIcon /\ [][NextIcon]_vars

\* main(), run up to MaxRuns times, in an environment that changes the
\* source file and the output directory.
Init ==
    /\ dr = DrIdle
    /\ probe_y = 0
    /\ el = ElIdle
    /\ ci = CiIdle
    /\ mn = MnStart
    /\ \E s \in Sources \cup {NoFile}, w \in BOOLEAN :
          fs = [NoFiles EXCEPT !.src = s, !.writable = w]
    /\ out = <<>>
    /\ hist = [NoHist EXCEPT !.env_src = fs.src]

NextMn ==
    \/ MnCreateIcon \/ MnIconReturned \/ MnIconRaised
    \/ MnSave \/ MnPrint \/ MnPrintDone

Program == NextMn \/ NextCi \/ NextEl

Next == Program \/ EnvSource \/ EnvWritable \/ Rerun

Spec == Init /\ [][Next]_vars

(***************************************************************************)
(* Properties of draw_retrowave                                            *)
(***************************************************************************)
DrRunning == dr.pc \notin {"idle", "start"}

Layers == {dr.grid_layer, dr.glow, dr.glow2}

\* C4: once the canvas exists, and after every stage (sky, floor, grid,
\* horizon glow, radial glow), it is size x size and the probed pixel, any
\* pixel of it, has alpha 255; every layer built so far has the canvas's
\* dimensions, so no composite raises.
C4_CanvasOpaque ==
    DrRunning =>
        /\ dr.pc # "raised"
        /\ dr.img.mode = "RGBA" /\ dr.img.w = dr.size /\ dr.img.h = dr.size
        /\ dr.img.px[4] = 255
        /\ \A l \in Layers : l.mode # "none" => SameShape(l, dr.img)

\* A semi-transparent radial glow was composited over the 512 canvas.
C4_Witness ==
    /\ dr.pc = "done" /\ dr.size = 512
    /\ dr.grid_layer.px[4] = 79 /\ dr.glow.px[4] = 140 /\ dr.glow2.px[4] = 1

Between(c, lo, hi) == \A k \in 1 .. 3 : lo[k] <= c[k] /\ c[k] <= hi[k]

RowsPartitioned ==
    \A r \in 0 .. dr.size - 1 :
        dr.fills[r + 1] = IF r < dr.horizon_y THEN <<"sky">> ELSE <<"floor">>

\* C7 as stated: for every size the horizon is floor(0.58 x size) (111 for
\* 192, 296 for 512), lies in 0..size, and splits the rows into sky rows
\* [0, horizon) and floor rows [horizon, size), each filled by exactly one.
C7_HorizonIsFloor ==
    DrRunning =>
        /\ dr.horizon_y = (58 * dr.size) \div 100
        /\ dr.size = 192 => dr.horizon_y = 111
        /\ dr.size = 512 => dr.horizon_y = 296
        /\ 0 <= dr.horizon_y /\ dr.horizon_y <= dr.size
        /\ dr.pc = "grid" => RowsPartitioned

\* The 50-pixel canvas has its horizon at row 28, where floor(0.58 x 50) = 29.
C7_Witness ==
    /\ DrRunning /\ dr.size = 50
    /\ dr.horizon_y = 28 /\ (58 * dr.size) \div 100 = 29

SkyRowDrawn(original) ==
    dr.drawn.kind = "sky" =>
        LET y == dr.drawn.y
            h == dr.horizon_y
        IN  /\ h >= 1 /\ y < h
            /\ \E i \in 1 .. Len(sky_stops) - 1 : Brackets(i, y, h)
            /\ Len(dr.drawn.draws) = 1
            /\ dr.fills[y + 1] = <<"sky">>
            /\ LET d == dr.drawn.draws[1] IN
                /\ Brackets(d.i, y, h)
                /\ \A j \in 1 .. d.i - 1 : ~Brackets(j, y, h)
                /\ Between(d.color, sky_stops[d.i].color, sky_stops[d.i + 1].color)
                /\ y = 0 => d.color = <<13, 10, 26>>
                /\ (y = h - 1 /\ (original \/ h >= 4)) =>
                       Between(d.color, <<40, 15, 72>>, <<52, 16, 88>>)
                /\ y = probe_y => dr.img.px = d.color \o <<255>>

SkyRowsOnce ==
    dr.pc = "grid" =>
        \A r \in 0 .. dr.horizon_y - 1 : dr.fills[r + 1] = <<"sky">>

\* C8 (amended): every sky row is filled exactly once, from the first pair
\* of adjacent stops bracketing t = y/horizon (one always exists); row 0 gets
\* (13,10,26); a row's colour lies channel-wise between its bracketing
\* stops; and when horizon >= 4, row horizon-1 lies between stops 4 and 5.
C8_SkyRows == SkyRowDrawn(FALSE) /\ SkyRowsOnce

\* C8 as stated: the same with row horizon-1 between stops 4 and 5 for every
\* horizon >= 1.
C8_SkyRowsAsStated == SkyRowDrawn(TRUE) /\ SkyRowsOnce

\* The last sky row of the 512 canvas, the probed row, was just drawn from
\* stops 4 and 5.
C8_Witness ==
    /\ dr.drawn.kind = "sky" /\ dr.size = 512
    /\ dr.drawn.y = dr.horizon_y - 1 /\ probe_y = dr.drawn.y
    /\ dr.drawn.draws[1].i = 4

(***************************************************************************)
(* Properties of extract_logo                                              *)
(***************************************************************************)
Extracted == 1 .. Len(el.result)

SourceBrightness(i) == Max3(fs.src.px[i])

FloorOfMidpoint(a) ==
    LET top == BigMulPow(<<1>>, 255, 10)
    IN  /\ BigLeq(BigMulPow(BigMulPow(<<1>>, a, 10), 2, 7), top)
        /\ ~BigLeq(BigMulPow(BigMulPow(<<1>>, a + 1, 10), 2, 7), top)

\* C6 (amended): a pixel of brightness exactly 110 is stored with alpha 156,
\* the floor of 255 x 0.5^0.7 (about 156.97).
C6_MidpointAlpha ==
    \A i \in Extracted :
        SourceBrightness(i) = 110 =>
            el.result[i][4] = 156 /\ FloorOfMidpoint(el.result[i][4])

\* C6 as stated: a pixel of brightness exactly 110 is stored with alpha 155.
C6_MidpointAlphaAsStated ==
    \A i \in Extracted : SourceBrightness(i) = 110 => el.result[i][4] = 155

\* A red-dominant pixel of brightness 110 was extracted.
C6_Witness ==
    /\ el.pc = "resize"
    /\ SourceBrightness(1) = 110 /\ fs.src.px[1][2] = 0

(***************************************************************************)
(* Properties of create_icon                                               *)
(***************************************************************************)
CiPlaced == ci.pc \in {"paste_glow", "paste_logo", "return", "done"}

\* C9: logo_px = floor(scale x size) with scale 0.65, or 0.55 when maskable;
\* x = floor((size - logo_px) / 2), so the margins left and right differ by
\* at most 1, and x = 90 for size 512 with logo_px 332; y = floor(0.40 x size)
\* - floor(logo_px / 2), so the logo's centre row is floor(0.40 x size), the
\* radial glow's centre row; the glow and the sharp logo are pasted at the
\* same (x, y), the glow composited first and the logo second.
C9_LogoCentred ==
    CiPlaced =>
        LET size  == ci.size
            lp    == ci.logo_px
            right == size - lp - ci.x
        IN  /\ lp = ((IF ci.maskable THEN 55 ELSE 65) * size) \div 100
            /\ ci.logo.w = lp /\ ci.logo.h = lp
            /\ ci.x = (size - lp) \div 2
            /\ right - ci.x \in {-1, 0, 1}
            /\ (size = 512 /\ ~ci.maskable) => (lp = 332 /\ ci.x = 90)
            /\ ci.y = (40 * size) \div 100 - lp \div 2
            /\ ci.y + lp \div 2 = radial_center(size)[2]
            /\ radial_center(size)[2] = (40 * size) \div 100
            /\ Len(ci.composited) =
                  (CASE ci.pc = "paste_glow" -> 0 [] ci.pc = "paste_logo" -> 1
                     [] OTHER -> 2)
            /\ \A k \in 1 .. Len(ci.composited) :
                  /\ ci.composited[k].layer = <<"logo_glow", "logo">>[k]
                  /\ ci.composited[k].x = ci.x /\ ci.composited[k].y = ci.y
                  /\ ci.composited[k].image.px[3].x0 = ci.x
                  /\ ci.composited[k].image.px[3].y0 = ci.y

\* The normal 512 icon was composed: glow, then logo.
C9_Witness ==
    /\ ci.pc = "done" /\ ci.size = 512 /\ ~ci.maskable
    /\ Len(ci.composited) = 2

(***************************************************************************)
(* Properties of main                                                      *)
(***************************************************************************)
Range(seq) == {seq[k] : k \in 1 .. Len(seq)}

IsPrefix(a, b) == Len(a) <= Len(b) /\ \A k \in 1 .. Len(a) : a[k] = b[k]

FourNames ==
    << <<"icon-", 192, ".png">>, <<"icon-", 192, "-maskable.png">>,
       <<"icon-", 512, ".png">>, <<"icon-", 512, "-maskable.png">> >>

\* C10: for each of the four icons the driver generates, the logo's paste
\* rectangle lies inside the canvas (x >= 0, y >= 0, x + logo_px <= size,
\* y + logo_px <= size), so paste_at clips nothing of the logo or its glow;
\* and for the same size the maskable logo is strictly smaller than the
\* normal one.
C10_LogoInsideCanvas ==
    /\ \A k \in 1 .. Len(hist.placed) :
          LET p == hist.placed[k] IN
          /\ <<"icon-", p.size, IF p.maskable THEN "-maskable.png" ELSE ".png">>
                = FourNames[k]
          /\ p.x >= 0 /\ p.y >= 0
          /\ p.x + p.logo_px <= p.size /\ p.y + p.logo_px <= p.size
          /\ \A j \in 1 .. Len(hist.placed) :
                (hist.placed[j].size = p.size /\ p.maskable
                   /\ ~hist.placed[j].maskable)
                    => p.logo_px < hist.placed[j].logo_px
    /\ \A k \in 1 .. Len(ci.composited) :
          LET im == ci.composited[k].image IN
          /\ im.px[3] = [x0 |-> ci.x, y0 |-> ci.y,
                         x1 |-> ci.x + ci.logo_px, y1 |-> ci.y + ci.logo_px]
          /\ im.px[4] = im.px[3]

\* The fourth icon's glow and logo were both pasted.
C10_Witness == Len(hist.placed) = 4 /\ Len(ci.composited) = 2

SizeOfName(name) == name[2]

\* The program has a step to take.  ElApply is enabled by its position alone.
CanStep ==
    \/ el.pc = "apply"
    \/ ENABLED (NextMn \/ NextCi \/ ElOpen \/ ElBrightness \/ ElRamp \/ ElResize)

\* C1: the saves of a run are, in order, icon-192.png, icon-192-maskable.png,
\* icon-512.png, icon-512-maskable.png; an icon is generated only when all
\* icons before it are saved; each saved image is RGB of size x size; a run
\* in which nothing has failed can always take its next step, and ends
\* having saved all four and printed "Done." last.
C1_FourSavesInOrder ==
    /\ IsPrefix(hist.saved, FourNames)
    /\ Len(hist.images) = Len(hist.saved)
    /\ \A k \in 1 .. Len(hist.saved) :
          /\ hist.images[k].mode = "RGB"
          /\ hist.images[k].w = SizeOfName(hist.saved[k])
          /\ hist.images[k].h = SizeOfName(hist.saved[k])
    /\ hist.calls - Len(hist.saved) \in {0, 1}
    /\ (ci.pc # "idle" \/ mn.pc \in {"creating", "save"})
          => hist.calls = Len(hist.saved) + 1
    /\ mn.pc \in {"create", "print", "finish", "exit"}
          => hist.calls = Len(hist.saved)
    /\ (hist.raised = "no" /\ mn.pc # "exit") => CanStep
    /\ <<"Done.">> \in Range(out) => mn.pc = "exit"
    /\ mn.pc = "exit" =>
          /\ hist.saved = FourNames
          /\ \A k \in 1 .. 4 : fs.files[FourNames[k]] = hist.images[k]
          /\ out = [k \in 1 .. 5 |->
                       IF k = 5 THEN <<"Done.">> ELSE <<"  ">> \o FourNames[k]]
          /\ ~CanStep

\* A run has ended after "Done.".
C1_Witness == mn.pc = "exit" /\ Len(out) = 5 /\ hist.run = 1

Unwinding == el.pc = "raised" \/ ci.pc = "raised"

\* C2: a failed load or save while producing the k-th icon ends the run in
\* a failed state: nothing is retried or generated after it, "Done." is not
\* printed, the k-1 files saved before are as they were saved and no other
\* file than the k-th was touched; a source absent at the first load fails
\* the run with no file written.
C2_FailureAborts ==
    /\ (hist.raised # "no" /\ ~Unwinding) => mn.pc = "failed"
    /\ Unwinding => (hist.raised = "load" /\ mn.pc = "creating")
    /\ el.pc \in {"brightness", "ramp", "apply", "resize", "done"}
          => fs.src.mode # "absent"
    /\ mn.pc = "failed" =>
          LET k == hist.calls IN
          /\ hist.raised \in {"load", "save"}
          /\ ~CanStep
          /\ ci = CiIdle /\ el = ElIdle
          /\ k \in 1 .. 4 /\ Len(hist.saved) = k - 1
          /\ Len(out) = k - 1 /\ <<"Done.">> \notin Range(out)
          /\ \A j \in 1 .. k - 1 : fs.files[hist.saved[j]] = hist.images[j]
          /\ \A n \in DOMAIN fs.files :
                (n \notin Range(hist.saved) /\ (n # FourNames[k] \/ hist.raised = "load"))
                    => (n \in DOMAIN hist.start_files
                          /\ fs.files[n] = hist.start_files[n])
          /\ (hist.raised = "load" /\ k = 1) => fs.files = hist.start_files

\* The third icon's load failed in a second run, two files saved before it.
C2_Witness ==
    /\ mn.pc = "failed" /\ hist.raised = "load"
    /\ Len(hist.saved) = 2 /\ hist.run = 2

====
